---- MODULE Spec2Model ----
(***************************************************************************)
(* gbp-auto-poster: the availability computation (calendar.ts), the text   *)
(* generator (generator.ts), the webhook post with its retry (gbp.ts), and *)
(* the loop over the studios (index.ts) with its notification (slack.ts).  *)
(*                                                                         *)
(* Time is counted in ticks of the timestamp resolution (a millisecond in  *)
(* the program).  HourMs ticks make an hour, DayHours hours make a day.    *)
(* Timezones are fixed offsets from UTC, in hours.                         *)
(***************************************************************************)
EXTENDS Integers, Sequences, FiniteSets

\* ------------------------------------------------------------------------
\* Bounds of the model
\* ------------------------------------------------------------------------
HourMs == 2
MaxTime == 4
MaxBusy == 2
MaxEvents == 2
\* ticks of the timer that the wait before the retry is divided into
SleepTicks == 3
\* the longest list of studios in config/studios.yaml
MaxStudios == 2
\* the longest list of free slots passed to the generator
MaxSlots == 4
\* the values Math.random() takes: 0, 1/RandomSteps, ..., (RandomSteps-1)/RandomSteps
RandomSteps == 4

\* ------------------------------------------------------------------------
\* Constants of the program
\* ------------------------------------------------------------------------
DayHours == 24
EpochWeekday == 4
\* sleep(10_000)
SleepMs == 10000
\* postText.slice(0, 40)
TitleSlice == 40
\* minutes of an hour, format('HH:mm')
HourMinutes == 60
DayMs == DayHours * HourMs

Max(a, b) == IF a >= b THEN a ELSE b
Min(a, b) == IF a <= b THEN a ELSE b

\* ------------------------------------------------------------------------
\* ISO strings: dayjs(ms).tz(tz).toISOString() prints the instant in UTC as
\* a calendar date and a time of day; dayjs(iso).valueOf() reads it back.
\* ------------------------------------------------------------------------
ToISOString(ms) == [date |-> ms \div DayMs, msOfDay |-> ms % DayMs]

ParseISO(iso) == iso.date * DayMs + iso.msOfDay

TimeSlot(s, e) == [start |-> ToISOString(s), end |-> ToISOString(e)]

SlotStart(slot) == ParseISO(slot.start)
SlotEnd(slot) == ParseISO(slot.end)

\* ------------------------------------------------------------------------
\* calcFreeSlots
\* ------------------------------------------------------------------------
\* Array.prototype.sort with the comparator (a, b) => a[0] - b[0]: a stable
\* sort by start; intervals of equal start keep their input order.
RECURSIVE InsertByStart(_, _)
InsertByStart(sortedSeq, iv) ==
    IF sortedSeq = <<>> THEN <<iv>>
    ELSE IF Head(sortedSeq)[1] <= iv[1]
         THEN <<Head(sortedSeq)>> \o InsertByStart(Tail(sortedSeq), iv)
         ELSE <<iv>> \o sortedSeq

RECURSIVE SortFrom(_, _, _)
SortFrom(busy, i, acc) ==
    IF i > Len(busy) THEN acc
    ELSE SortFrom(busy, i + 1, InsertByStart(acc, busy[i]))

\* variant: the sort is left out
UnsortedCopy(busyIntervals) == busyIntervals

SortByStart(busyIntervals) == SortFrom(busyIntervals, 1, <<>>)

\* variant: the push is made without the test bStart > cursor
GapAlways(cursor, bStart) == <<TimeSlot(cursor, bStart)>>

\* if (bStart > cursor) freeSlots.push({start: cursor, end: bStart})
GapBefore(cursor, bStart) ==
    IF bStart > cursor THEN <<TimeSlot(cursor, bStart)>> ELSE <<>>

\* variant: cursor = bEnd
AdvanceToEnd(cursor, bEnd) == bEnd

\* cursor = Math.max(cursor, bEnd)
AdvanceCursor(cursor, bEnd) == Max(cursor, bEnd)

\* variants: the last push is left out; its test is cursor <= dayEnd
TailNever(cursor, dayEnd) == <<>>
TailInclusive(cursor, dayEnd) ==
    IF cursor <= dayEnd THEN <<TimeSlot(cursor, dayEnd)>> ELSE <<>>

\* if (cursor < dayEnd) freeSlots.push({start: cursor, end: dayEnd})
TailSlot(cursor, dayEnd) ==
    IF cursor < dayEnd THEN <<TimeSlot(cursor, dayEnd)>> ELSE <<>>

\* the for loop over the sorted intervals, from index i on
RECURSIVE Sweep(_, _, _, _)
Sweep(sorted, i, cursor, freeSlots) ==
    IF i > Len(sorted) THEN [cursor |-> cursor, freeSlots |-> freeSlots]
    ELSE Sweep(sorted, i + 1,
               AdvanceCursor(cursor, sorted[i][2]),
               freeSlots \o GapBefore(cursor, sorted[i][1]))

calcFreeSlots(start, end, busy) ==
    LET sorted == SortByStart(busy)
        swept  == Sweep(sorted, 1, start, <<>>)
    IN  swept.freeSlots \o TailSlot(swept.cursor, end)

\* variant: busyIntervals.sort(...) sorts the caller's array
SortedInPlace(busy) == SortByStart(busy)

\* const sorted = [...busyIntervals].sort(...): the sort works on a copy,
\* the caller's array is what it was.
CallerArrayAfter(busy) == busy

\* ------------------------------------------------------------------------
\* getAvailability
\* ------------------------------------------------------------------------
\* dayjs().tz(tz): the wall clock of instant ms in the zone tz hours east of
\* UTC, and the calendar day (days since 1970-01-01) it falls on
LocalMs(ms, tz) == ms + tz * HourMs
LocalDay(ms, tz) == LocalMs(ms, tz) \div DayMs

\* variant: dayjs().startOf('day') in UTC, the zone is ignored
StartOfDayUTC(ms, tz) == (ms \div DayMs) * DayMs

\* now.startOf('day'): the instant of local midnight of now's day in tz
StartOfDay(ms, tz) == LocalDay(ms, tz) * DayMs - tz * HourMs

\* variant: the following local midnight
EndOfDayNextMidnight(ms, tz) == StartOfDay(ms, tz) + DayMs

\* now.endOf('day'): the last tick of that local day, 23:59:59.999
EndOfDay(ms, tz) == StartOfDay(ms, tz) + DayMs - 1

\* now.day(): 0 = Sunday .. 6 = Saturday; 1970-01-01 was a Thursday
Weekday(ms, tz) == (LocalDay(ms, tz) + EpochWeekday) % 7

\* variant: the weekday is read in UTC
IsWeekendUTC(ms, tz) == Weekday(ms, 0) = 0 \/ Weekday(ms, 0) = 6

\* now.day() === 0 || now.day() === 6
IsWeekend(ms, tz) == Weekday(ms, tz) = 0 \/ Weekday(ms, tz) = 6

\* formatTodayLabel(now); every instant of the model lies in January 1970,
\* where month() + 1 is 1 and date() is the day number plus one
formatTodayLabel(ms, tz) ==
    [month |-> 1, date |-> LocalDay(ms, tz) + 1, day |-> Weekday(ms, tz)]

\* An event time of the calendar API: absent, a dateTime (an instant) or a
\* date (a calendar day, for all-day events).
NoTime == [kind |-> "none", value |-> 0]
DateTime(ms) == [kind |-> "dateTime", value |-> ms]
DateOnly(day) == [kind |-> "date", value |-> day]

\* dayjs(e.start?.dateTime ?? e.start?.date ?? undefined).tz(tz).valueOf():
\* a dateTime names its instant; a date without time is read as midnight in
\* the zone the process runs in (runtimeTz hours east of UTC)
EventMs(t, runtimeTz) ==
    IF t.kind = "dateTime" THEN t.value
    ELSE t.value * DayMs - runtimeTz * HourMs

\* events.filter(e => e.start && e.end)
HasStartAndEnd(e) == e.start.kind # "none" /\ e.end.kind # "none"

\* events.filter(...).map(e => [start.valueOf(), end.valueOf()])
RECURSIVE BusyOf(_, _)
BusyOf(evs, runtimeTz) ==
    IF evs = <<>> THEN <<>>
    ELSE (IF HasStartAndEnd(Head(evs))
          THEN <<<<EventMs(Head(evs).start, runtimeTz),
                   EventMs(Head(evs).end, runtimeTz)>>>>
          ELSE <<>>) \o BusyOf(Tail(evs), runtimeTz)

\* if (events.length === 0): the CASE B early return
NoEvents(evs) == Len(evs) = 0

\* variant: the weekday window on every day
PeakAlwaysWeekday(isWeekend, hours) == hours.weekday

\* isWeekend ? peakHours.weekend : peakHours.weekday
PeakOf(isWeekend, hours) == IF isWeekend THEN hours.weekend ELSE hours.weekday

\* todayStart.hour(h): hour h of the local day that starts at todayStart
AtHour(todayStart, h) == todayStart + h * HourMs

\* the first filter: s < peakEnd && e > peakStart
Overlaps(slot, peakStart, peakEnd) ==
    SlotStart(slot) < peakEnd /\ SlotEnd(slot) > peakStart

\* variant: the slot is kept as it is
Unclamped(slot, peakStart, peakEnd) == TimeSlot(SlotStart(slot), SlotEnd(slot))

\* the map: clamp the slot to the peak window
ClampToPeak(slot, peakStart, peakEnd) ==
    TimeSlot(Max(SlotStart(slot), peakStart), Min(SlotEnd(slot), peakEnd))

\* variant: the last filter is left out
KeepAll(slot) == TRUE

\* the last filter: dayjs(slot.end).valueOf() > dayjs(slot.start).valueOf()
HasLength(slot) == SlotEnd(slot) > SlotStart(slot)

RECURSIVE PeakFreeSlots(_, _, _)
PeakFreeSlots(slots, peakStart, peakEnd) ==
    IF slots = <<>> THEN <<>>
    ELSE LET clamped == ClampToPeak(Head(slots), peakStart, peakEnd)
         IN  (IF Overlaps(Head(slots), peakStart, peakEnd) /\ HasLength(clamped)
              THEN <<clamped>> ELSE <<>>)
             \o PeakFreeSlots(Tail(slots), peakStart, peakEnd)

\* variant: peakFreeSlots.length >= 0
CaseAlwaysA(peakFreeSlots) == IF Len(peakFreeSlots) >= 0 THEN "A" ELSE "C"

\* peakFreeSlots.length > 0 ? 'A' : 'C'
CaseOf(peakFreeSlots) == IF Len(peakFreeSlots) > 0 THEN "A" ELSE "C"

\* the calendar.events.list request
QueryOf(ms, tz) ==
    [timeMin |-> ToISOString(StartOfDay(ms, tz)),
     timeMax |-> ToISOString(EndOfDay(ms, tz))]

\* what getAvailability returns for the fetched events
getAvailability(ms, tz, runtimeTz, hours, evs) ==
    LET todayStart == StartOfDay(ms, tz)
        todayEnd   == EndOfDay(ms, tz)
        isWeekend  == IsWeekend(ms, tz)
        free       == calcFreeSlots(todayStart, todayEnd, BusyOf(evs, runtimeTz))
        peak       == PeakOf(isWeekend, hours)
        peakFree   == PeakFreeSlots(free, AtHour(todayStart, peak.start),
                                    AtHour(todayStart, peak.end))
    IN  IF NoEvents(evs)
        THEN [case |-> "B",
              freeSlots |-> <<TimeSlot(todayStart, todayEnd)>>,
              peakFreeSlots |-> <<>>,
              isWeekend |-> isWeekend,
              todayLabel |-> formatTodayLabel(ms, tz)]
        ELSE [case |-> CaseOf(peakFree),
              freeSlots |-> free,
              peakFreeSlots |-> peakFree,
              isWeekend |-> isWeekend,
              todayLabel |-> formatTodayLabel(ms, tz)]

\* ------------------------------------------------------------------------
\* State
\* ------------------------------------------------------------------------
VARIABLES
    dayStart,       \* calcFreeSlots: argument dayStart
    dayEnd,         \* calcFreeSlots: argument dayEnd
    busyIntervals,  \* calcFreeSlots: the caller's array of [start, end] pairs
    freeSlots,      \* calcFreeSlots: the returned TimeSlot[]
    pc,             \* calcFreeSlots: "ready" before the call, "returned" after it
    now,            \* getAvailability: the instant dayjs() reads
    tz,             \* getAvailability: the studio's zone, hours east of UTC
    runtimeTz,      \* the zone the process runs in, hours east of UTC
    peakHours,      \* getAvailability: the studio's peakHours setting
    query,          \* the calendar.events.list request sent
    events,         \* response.data.items
    result,         \* the AvailabilityResult returned
    apc,            \* getAvailability: "ready", "awaiting" (the list request
                    \* is in flight), "returned"
    postArgs,       \* createLocalPost: its five arguments
    requests,       \* createLocalPost: the fetch calls made, in order
    responses,      \* createLocalPost: how each fetch call ended, in order
    waited,         \* createLocalPost: ticks of the sleep timer that have passed
    postResult,     \* createLocalPost: the PostResult the promise resolved to
    ppc,            \* createLocalPost: "ready", "attempt1", "sleeping",
                    \* "attempt2", "returned", "thrown" (the promise rejected)
    env,            \* main: process.env, the set of variables that are set
    studios,        \* main: the studios of config/studios.yaml, in order
    idx,            \* main: position of the loop in studios
    hasError,       \* main: let hasError
    lastPost,       \* main: const result of the studio in progress
    steps,          \* main: the steps taken, in order, with how each ended
    slackPosts,     \* notify: the fetch calls made to the Slack webhook
    exitCode,       \* the exit code of the process, -1 while it runs
    mpc,            \* main: "entry", "availability", "posting", "notifying",
                    \* "catchNotifying" (the await in progress), "exited"
    availability,   \* generatePost: the AvailabilityResult passed
    options,        \* generatePost: { timezone, peakHours }
    snapshot,       \* which of the two generator.ts of the repository runs
    random,         \* generatePost: the index Math.random() selects
    slotStr,        \* slotsToString: the string returned
    post,           \* generatePost: the string returned
    gpc,            \* generator: "ready", "rendered" (slotsToString returned),
                    \* "generated" (generatePost returned)
    bookingEvents,  \* countByHour: argument events, { start, end } instants
    bookingTz,      \* countByHour: argument tz, hours east of UTC
    counts,         \* countByHour: the arrays weekday and weekend
    position,       \* countByHour: bookings the for-of loop has been through
    cpc             \* countByHour: "counting", "returned"

freeVars == <<dayStart, dayEnd, busyIntervals, freeSlots, pc>>
availVars == <<now, tz, runtimeTz, peakHours, query, events, result, apc>>
postVars == <<postArgs, requests, responses, waited, postResult, ppc>>
mainVars == <<env, studios, idx, hasError, lastPost, steps, slackPosts, exitCode, mpc>>
genVars == <<availability, options, snapshot, random, slotStr, post, gpc>>
countVars == <<bookingEvents, bookingTz, counts, position, cpc>>
restVars == <<postVars, mainVars, genVars, countVars>>
vars == <<freeVars, availVars, restVars>>

NoQuery == [timeMin |-> ToISOString(0), timeMax |-> ToISOString(0)]
NoResult ==
    [case |-> "none", freeSlots |-> <<>>, peakFreeSlots |-> <<>>,
     isWeekend |-> FALSE, todayLabel |-> formatTodayLabel(0, 0)]
NoPeakHours ==
    [weekday |-> [start |-> 0, end |-> 0], weekend |-> [start |-> 0, end |-> 0]]

\* getAvailability is not running
AvailIdle ==
    /\ now = 0 /\ tz = 0 /\ runtimeTz = 0
    /\ peakHours = NoPeakHours
    /\ query = NoQuery
    /\ events = <<>>
    /\ result = NoResult
    /\ apc = "ready"

\* calcFreeSlots has not been called
FreeIdle ==
    /\ dayStart = 0 /\ dayEnd = 0
    /\ busyIntervals = <<>>
    /\ freeSlots = <<>>
    /\ pc = "ready"

NoPostArgs ==
    [webhookUrl |-> "", accountId |-> "", locationId |-> "",
     postText |-> <<>>, bookingUrl |-> ""]
NoPostResult == [success |-> FALSE, retried |-> FALSE, error |-> <<"none">>]

\* createLocalPost has not been called
PostIdle ==
    /\ postArgs = NoPostArgs
    /\ requests = <<>>
    /\ responses = <<>>
    /\ waited = 0
    /\ postResult = NoPostResult
    /\ ppc = "ready"

\* main has not started
MainIdle ==
    /\ env = {}
    /\ studios = <<>>
    /\ idx = 0
    /\ hasError = FALSE
    /\ lastPost = NoPostResult
    /\ steps = <<>>
    /\ slackPosts = <<>>
    /\ exitCode = -1
    /\ mpc = "entry"

NoOptions == [timezone |-> 0, peakHours |-> NoPeakHours]

\* the generator has not been called
GenIdle ==
    /\ availability = NoResult
    /\ options = NoOptions
    /\ snapshot = 0
    /\ random = 0
    /\ slotStr = <<>>
    /\ post = <<>>
    /\ gpc = "ready"

\* Array(24).fill(0), twice
NoCounts ==
    [weekday |-> [h \in 0 .. DayHours - 1 |-> 0],
     weekend |-> [h \in 0 .. DayHours - 1 |-> 0]]

\* countByHour has not been called
CountIdle ==
    /\ bookingEvents = <<>>
    /\ bookingTz = 0
    /\ counts = NoCounts
    /\ position = 0
    /\ cpc = "counting"

\* nothing but the availability computation runs
RestIdle == PostIdle /\ MainIdle /\ GenIdle /\ CountIdle

\* ------------------------------------------------------------------------
\* Inputs of calcFreeSlots
\* ------------------------------------------------------------------------
Times == -1 .. MaxTime

\* well-formed busy intervals: start < end
Intervals == {iv \in Times \X Times : iv[1] < iv[2]}

RECURSIVE SeqsUpTo(_, _)
SeqsUpTo(S, n) ==
    IF n = 0 THEN {<<>>}
    ELSE LET shorter == SeqsUpTo(S, n - 1)
         IN  shorter \cup {Append(q, x) : q \in {r \in shorter : Len(r) = n - 1}, x \in S}

\* day windows, dayStart < dayEnd: the whole range, a short window that busy
\* intervals can lie behind, a window that busy intervals can lie before
Windows == {w \in {<<0, MaxTime>>, <<0, MaxTime - 2>>, <<1, MaxTime - 1>>} : w[1] < w[2]}

InsertAt(busy, pos, iv) ==
    SubSeq(busy, 1, pos - 1) \o <<iv>> \o SubSeq(busy, pos, Len(busy))

\* ------------------------------------------------------------------------
\* Specification of calcFreeSlots and its callers
\* ------------------------------------------------------------------------
InitFree ==
    /\ \E w \in Windows : dayStart = w[1] /\ dayEnd = w[2]
    /\ busyIntervals \in SeqsUpTo(Intervals, MaxBusy)
    /\ freeSlots = <<>>
    /\ pc = "ready"
    /\ AvailIdle
    /\ RestIdle

\* a call calcFreeSlots(dayStart, dayEnd, busyIntervals, tz)
CallCalcFreeSlots ==
    /\ pc = "ready"
    /\ freeSlots' = calcFreeSlots(dayStart, dayEnd, busyIntervals)
    /\ busyIntervals' = CallerArrayAfter(busyIntervals)
    /\ pc' = "returned"
    /\ UNCHANGED <<dayStart, dayEnd>>
    /\ UNCHANGED <<availVars, restVars>>

NextFree == CallCalcFreeSlots

SpecFree == InitFree /\ [][NextFree]_vars

\* ------------------------------------------------------------------------
\* Inputs of getAvailability
\* ------------------------------------------------------------------------
\* instants of 2, 3 and 4 January 1970 (a Friday, a Saturday, a Sunday in UTC)
Nows == {1 * DayMs + 3 * HourMs, 1 * DayMs + 23 * HourMs, 3 * DayMs + 23 * HourMs}

\* UTC and Asia/Tokyo
TzOffsets == {0, 9}

\* the README's peak hours; a setting whose weekday window ends before it
\* starts and whose weekend window is empty
PeakConfigs ==
    {[weekday |-> [start |-> 17, end |-> 21], weekend |-> [start |-> 13, end |-> 17]],
     [weekday |-> [start |-> 21, end |-> 17], weekend |-> [start |-> 13, end |-> 13]]}

\* hours of the local day at which the events of the model start and end;
\* -1 is 23:00 of the day before
EventHours == {-1, 0, 17, 19}

EventInstants(ms, zone) ==
    {AtHour(StartOfDay(ms, zone), h) : h \in EventHours} \cup {EndOfDay(ms, zone)}

\* the events the calendar can hold: timed events, an event of no duration,
\* an event that ends before it starts, events that lack start or end, an
\* all-day event on the local day
EventsOn(ms, zone) ==
    LET at == EventInstants(ms, zone)
    IN  {[start |-> DateTime(p[1]), end |-> DateTime(p[2])] :
            p \in {q \in at \X at : q[1] < q[2]}}
        \cup {[start |-> DateTime(a), end |-> DateTime(a)] :
                a \in {AtHour(StartOfDay(ms, zone), 19)}}
        \cup {[start |-> DateTime(AtHour(StartOfDay(ms, zone), 19)),
               end |-> DateTime(AtHour(StartOfDay(ms, zone), 17))]}
        \cup {[start |-> NoTime, end |-> DateTime(EndOfDay(ms, zone))],
              [start |-> DateTime(StartOfDay(ms, zone)), end |-> NoTime]}
        \cup {[start |-> DateOnly(LocalDay(ms, zone)),
               end |-> DateOnly(LocalDay(ms, zone) + 1)]}

\* ------------------------------------------------------------------------
\* Specification of getAvailability
\* ------------------------------------------------------------------------
InitAvail ==
    /\ now \in Nows
    /\ tz \in TzOffsets
    /\ runtimeTz \in TzOffsets
    /\ peakHours \in PeakConfigs
    /\ query = NoQuery
    /\ events = <<>>
    /\ result = NoResult
    /\ apc = "ready"
    /\ FreeIdle
    /\ RestIdle

\* getAvailability up to `await calendar.events.list(...)`
ListEvents ==
    /\ apc = "ready"
    /\ query' = QueryOf(now, tz)
    /\ apc' = "awaiting"
    /\ UNCHANGED <<now, tz, runtimeTz, peakHours, events, result>>
    /\ UNCHANGED <<freeVars, restVars>>

\* the response arrives and getAvailability runs to its return
ReceiveEvents ==
    /\ apc = "awaiting"
    /\ \E evs \in SeqsUpTo(EventsOn(now, tz), MaxEvents) :
          /\ events' = evs
          /\ result' = getAvailability(now, tz, runtimeTz, peakHours, evs)
          /\ IF NoEvents(evs)
             THEN UNCHANGED freeVars
             ELSE /\ dayStart' = StartOfDay(now, tz)
                  /\ dayEnd' = EndOfDay(now, tz)
                  /\ busyIntervals' = BusyOf(evs, runtimeTz)
                  /\ freeSlots' = calcFreeSlots(StartOfDay(now, tz), EndOfDay(now, tz),
                                                BusyOf(evs, runtimeTz))
                  /\ pc' = "returned"
    /\ apc' = "returned"
    /\ UNCHANGED <<now, tz, runtimeTz, peakHours, query>>
    /\ UNCHANGED restVars

NextAvail == ListEvents \/ ReceiveEvents

SpecAvail == InitAvail /\ [][NextAvail]_vars

\* ------------------------------------------------------------------------
\* createLocalPost (gbp.ts)
\* ------------------------------------------------------------------------
\* A text is a sequence of characters; "LB" and "RB" stand for the brackets
\* of a title, "NL" for a line break.

\* postText.match(/^\u3010(.+?)\u3011/): the text opens with a bracket and the
\* first closing bracket that leaves at least one character between them is
\* reached without a line break; 0 when there is no match
TitleMatch(text) ==
    IF Len(text) >= 3 /\ text[1] = "LB"
    THEN LET closing == {k \in 3 .. Len(text) : text[k] = "RB"}
         IN  IF closing = {} THEN 0
             ELSE LET k == CHOOSE c \in closing : \A d \in closing : c <= d
                  IN  IF \E j \in 2 .. (k - 1) : text[j] = "NL" THEN 0 ELSE k
    ELSE 0

\* titleMatch ? titleMatch[1] : postText.slice(0, 40)
TitleOf(text) ==
    IF TitleMatch(text) # 0
    THEN SubSeq(text, 2, TitleMatch(text) - 1)
    ELSE SubSeq(text, 1, Min(TitleSlice, Len(text)))

\* the payload that JSON.stringify serialises
BodyOf(args) ==
    [accountId |-> args.accountId,
     locationId |-> args.locationId,
     title |-> TitleOf(args.postText),
     text |-> args.postText,
     bookingUrl |-> args.bookingUrl]

\* the fetch call of attempt
Request(url, body) ==
    [url |-> url, method |-> "POST", contentType |-> "application/json", body |-> body]

\* how a fetch call can end: the promise rejects (a network error), or it
\* resolves to a response; the body of a response may fail to be read
Rejected == [rejected |-> TRUE, ok |-> FALSE, status |-> 0, readable |-> FALSE, text |-> ""]
Response(isOk, status, readable, text) ==
    [rejected |-> FALSE, ok |-> isOk, status |-> status, readable |-> readable, text |-> text]

\* what attempt returns for a response
AttemptResult(response) ==
    IF response.ok
    THEN [ok |-> TRUE, status |-> response.status, errorText |-> ""]
    ELSE [ok |-> FALSE, status |-> response.status,
          errorText |-> IF response.readable THEN response.text
                        ELSE "(could not read response body)"]

\* `await fetch(...)` inside attempt is not guarded: a rejection leaves
\* attempt, and createLocalPost awaits attempt without a guard either
AttemptThrows(settled) == settled.rejected

NoError == <<>>

\* variant: a result that never carries an error
ResultWithoutError(success, retried, error) ==
    [success |-> success, retried |-> retried, error |-> NoError]

PostResult(success, retried, error) ==
    [success |-> success, retried |-> retried, error |-> error]

\* `HTTP ${retry.status}: ${retry.errorText}`
ErrorOf(retry) == <<"HTTP", retry.status, retry.errorText>>

\* the time that has passed after `ticks` ticks of the sleep timer
Elapsed(ticks) == (ticks * SleepMs) \div SleepTicks

\* variant: a timer that fires at once
TimerDueAtOnce(ticks) == TRUE

\* setTimeout(resolve, ms) of sleep(10_000)
TimerDue(ticks) == Elapsed(ticks) >= SleepMs

\* ------------------------------------------------------------------------
\* Inputs of createLocalPost
\* ------------------------------------------------------------------------
WebhookUrls == {"https://hook.make.com/a", "https://hook.make.com/b"}

\* a text with a title, one without, one whose first closing bracket follows
\* the opening one directly, one whose title is cut by a line break
PostTexts ==
    {<<"LB", "a", "b", "RB", "c">>,
     <<"a", "b", "c">>,
     <<"LB", "RB", "a", "RB">>,
     <<"LB", "a", "NL", "RB">>}

FetchOutcomes ==
    {Rejected, Response(TRUE, 200, TRUE, "Accepted")}
    \cup {Response(FALSE, 403, rd, "Forbidden") : rd \in BOOLEAN}
    \cup {Response(FALSE, 500, rd, "Internal Server Error") : rd \in BOOLEAN}

\* ------------------------------------------------------------------------
\* Specification of createLocalPost
\* ------------------------------------------------------------------------
InitPost ==
    /\ postArgs \in {[webhookUrl |-> u, accountId |-> "accounts/1",
                       locationId |-> "locations/1", postText |-> t,
                       bookingUrl |-> "https://example.com/book"] :
                          u \in WebhookUrls, t \in PostTexts}
    /\ requests = <<>>
    /\ responses = <<>>
    /\ waited = 0
    /\ postResult = NoPostResult
    /\ ppc = "ready"
    /\ FreeIdle
    /\ AvailIdle
    /\ MainIdle
    /\ GenIdle
    /\ CountIdle

\* createLocalPost up to the fetch call of the first attempt
CallCreateLocalPost ==
    /\ ppc = "ready"
    /\ requests' = <<Request(postArgs.webhookUrl, BodyOf(postArgs))>>
    /\ ppc' = "attempt1"
    /\ UNCHANGED <<postArgs, responses, waited, postResult>>
    /\ UNCHANGED <<freeVars, availVars, mainVars, genVars, countVars>>

\* the first fetch settles; createLocalPost runs to its return or to sleep
FirstAttemptSettles ==
    /\ ppc = "attempt1"
    /\ \E settled \in FetchOutcomes :
          /\ responses' = Append(responses, settled)
          /\ IF AttemptThrows(settled)
             THEN ppc' = "thrown" /\ UNCHANGED <<postResult, waited>>
             ELSE IF AttemptResult(settled).ok
                  THEN /\ postResult' = PostResult(TRUE, FALSE, NoError)
                       /\ ppc' = "returned"
                       /\ UNCHANGED waited
                  ELSE /\ waited' = 0
                       /\ ppc' = "sleeping"
                       /\ UNCHANGED postResult
    /\ UNCHANGED <<postArgs, requests>>
    /\ UNCHANGED <<freeVars, availVars, mainVars, genVars, countVars>>

\* time passes while createLocalPost sleeps
Tick ==
    /\ ppc = "sleeping"
    /\ waited < SleepTicks
    /\ waited' = waited + 1
    /\ UNCHANGED <<postArgs, requests, responses, postResult, ppc>>
    /\ UNCHANGED <<freeVars, availVars, mainVars, genVars, countVars>>

\* the timer fires; createLocalPost makes the fetch call of the second attempt
RetryAfterSleep ==
    /\ ppc = "sleeping"
    /\ TimerDue(waited)
    /\ requests' = Append(requests, Request(postArgs.webhookUrl, BodyOf(postArgs)))
    /\ ppc' = "attempt2"
    /\ UNCHANGED <<postArgs, responses, waited, postResult>>
    /\ UNCHANGED <<freeVars, availVars, mainVars, genVars, countVars>>

\* the second fetch settles; createLocalPost runs to its return
SecondAttemptSettles ==
    /\ ppc = "attempt2"
    /\ \E settled \in FetchOutcomes :
          /\ responses' = Append(responses, settled)
          /\ IF AttemptThrows(settled)
             THEN ppc' = "thrown" /\ UNCHANGED postResult
             ELSE IF AttemptResult(settled).ok
                  THEN /\ postResult' = PostResult(TRUE, TRUE, NoError)
                       /\ ppc' = "returned"
                  ELSE /\ postResult' =
                            PostResult(FALSE, TRUE, ErrorOf(AttemptResult(settled)))
                       /\ ppc' = "returned"
    /\ UNCHANGED <<postArgs, requests, waited>>
    /\ UNCHANGED <<freeVars, availVars, mainVars, genVars, countVars>>

NextPost ==
    \/ CallCreateLocalPost
    \/ FirstAttemptSettles
    \/ Tick
    \/ RetryAfterSleep
    \/ SecondAttemptSettles

SpecPost == InitPost /\ [][NextPost]_vars

\* ------------------------------------------------------------------------
\* main (index.ts) and notify (slack.ts)
\* ------------------------------------------------------------------------
GoogleVars == {"GOOGLE_CLIENT_ID", "GOOGLE_CLIENT_SECRET", "GOOGLE_REFRESH_TOKEN"}
MakeVar == "MAKE_WEBHOOK_URL"
SlackVar == "SLACK_WEBHOOK_URL"

\* variant: the environment is taken as complete
EnvNeverMissing(e) == FALSE

\* the two tests of step 1 of main: true when main throws
MissingEnv(e) == ~(GoogleVars \subseteq e) \/ MakeVar \notin e

\* variant: a process that always ends with code 0
ExitAlwaysZero(err) == 0

\* if (hasError) process.exit(1); a process that ends by itself has code 0
ExitCodeOf(err) == IF err THEN 1 ELSE 0

\* an entry of the record of steps
StepDone(studio, step, outcome) == [studio |-> studio, step |-> step, outcome |-> outcome]

\* the fetch call of notify
SlackPost(studio, success, retried) ==
    [studio |-> studio, method |-> "POST", success |-> success, retried |-> retried]

\* variant: a notify that reports failures only
NotifyOnlyFailures(e, studio, success, retried) ==
    IF SlackVar \in e /\ ~success THEN <<SlackPost(studio, success, retried)>> ELSE <<>>

\* notify: nothing is sent when the webhook URL is empty
NotifyCalls(e, studio, success, retried) ==
    IF SlackVar \in e THEN <<SlackPost(studio, success, retried)>> ELSE <<>>

\* notify awaits fetch without a guard: when it sends, it can reject
NotifyOutcomes(e) == IF SlackVar \in e THEN {"ok", "threw"} ELSE {"ok"}

\* what `await getAvailability(...)` gives: a case, or a rejection
AvailabilityOutcomes == {"A", "B", "C", "threw"}

\* what `await createLocalPost(...)` gives: the three results it returns, or
\* the rejection of an unguarded fetch
PostOutcomes ==
    {[threw |-> FALSE, result |-> PostResult(TRUE, FALSE, NoError)],
     [threw |-> FALSE, result |-> PostResult(TRUE, TRUE, NoError)],
     [threw |-> FALSE,
      result |-> PostResult(FALSE, TRUE,
                            ErrorOf(AttemptResult(Response(FALSE, 500, TRUE,
                                                           "Internal Server Error"))))],
     [threw |-> TRUE, result |-> NoPostResult]}

\* variant: an iteration that passes over every other studio
SkipOne(i) == i + 2

\* for (const studio of studios): the position after position i
FollowingStudio(i) == i + 1

\* the end of one pass of the loop: the next studio, or the end of main
NextStudio(err) ==
    IF idx < Len(studios)
    THEN idx' = FollowingStudio(idx) /\ mpc' = "availability" /\ exitCode' = exitCode
    ELSE idx' = idx /\ mpc' = "exited" /\ exitCode' = ExitCodeOf(err)

\* the catch block up to `await notify(...).catch(() => {})`
EnterCatch(threwAt) ==
    /\ hasError' = TRUE
    /\ steps' = Append(steps, StepDone(idx, threwAt, "threw"))
    /\ slackPosts' = slackPosts \o NotifyCalls(env, idx, FALSE, FALSE)
    /\ mpc' = "catchNotifying"
    /\ UNCHANGED <<idx, exitCode>>

\* ------------------------------------------------------------------------
\* Inputs of main
\* ------------------------------------------------------------------------
StudioList(n) == [i \in 1 .. n |-> i]

Envs == SUBSET (GoogleVars \cup {MakeVar, SlackVar})

\* ------------------------------------------------------------------------
\* Specification of main
\* ------------------------------------------------------------------------
InitMain ==
    /\ env \in Envs
    /\ studios \in {StudioList(n) : n \in 0 .. MaxStudios}
    /\ idx = 0
    /\ hasError = FALSE
    /\ lastPost = NoPostResult
    /\ steps = <<>>
    /\ slackPosts = <<>>
    /\ exitCode = -1
    /\ mpc = "entry"
    /\ FreeIdle
    /\ AvailIdle
    /\ PostIdle
    /\ GenIdle
    /\ CountIdle

\* main from its entry to the getAvailability call of the first studio; a
\* throw of main is caught by main().catch, which exits with code 1
MainStart ==
    /\ mpc = "entry"
    /\ IF MissingEnv(env)
       THEN mpc' = "exited" /\ exitCode' = 1 /\ idx' = idx /\ steps' = steps
       ELSE /\ steps' = Append(steps, StepDone(0, "readConfig", "ok"))
            /\ NextStudio(FALSE)
    /\ UNCHANGED <<env, studios, hasError, lastPost, slackPosts>>
    /\ UNCHANGED <<freeVars, availVars, postVars, genVars, countVars>>

\* getAvailability settles; on success main generates the text and calls
\* createLocalPost, on a rejection it enters the catch block
AvailabilitySettles ==
    /\ mpc = "availability"
    /\ \E outcome \in AvailabilityOutcomes :
          IF outcome = "threw"
          THEN EnterCatch("getAvailability")
          ELSE /\ steps' = steps \o <<StepDone(idx, "getAvailability", outcome),
                                       StepDone(idx, "generatePost", "ok")>>
               /\ mpc' = "posting"
               /\ UNCHANGED <<idx, hasError, slackPosts, exitCode>>
    /\ UNCHANGED <<env, studios, lastPost>>
    /\ UNCHANGED <<freeVars, availVars, postVars, genVars, countVars>>

\* createLocalPost settles; on a result main calls notify with it, on a
\* rejection it enters the catch block
PostSettles ==
    /\ mpc = "posting"
    /\ \E outcome \in PostOutcomes :
          IF outcome.threw
          THEN EnterCatch("createLocalPost") /\ UNCHANGED lastPost
          ELSE /\ lastPost' = outcome.result
               /\ steps' = Append(steps,
                                  StepDone(idx, "createLocalPost",
                                           IF outcome.result.success
                                           THEN "success" ELSE "failure"))
               /\ slackPosts' = slackPosts \o NotifyCalls(env, idx, outcome.result.success,
                                                          outcome.result.retried)
               /\ mpc' = "notifying"
               /\ UNCHANGED <<idx, hasError, exitCode>>
    /\ UNCHANGED <<env, studios>>
    /\ UNCHANGED <<freeVars, availVars, postVars, genVars, countVars>>

\* the notify call of the try block settles; on success main tests
\* result.success and goes on, on a rejection it enters the catch block
NotifySettles ==
    /\ mpc = "notifying"
    /\ \E outcome \in NotifyOutcomes(env) :
          IF outcome = "threw"
          THEN EnterCatch("notify")
          ELSE /\ hasError' = (hasError \/ ~lastPost.success)
               /\ steps' = Append(steps, StepDone(idx, "notify", "ok"))
               /\ NextStudio(hasError \/ ~lastPost.success)
               /\ UNCHANGED slackPosts
    /\ UNCHANGED <<env, studios, lastPost>>
    /\ UNCHANGED <<freeVars, availVars, postVars, genVars, countVars>>

\* the notify call of the catch block settles; its rejection is swallowed
CatchNotifySettles ==
    /\ mpc = "catchNotifying"
    /\ \E outcome \in NotifyOutcomes(env) :
          steps' = Append(steps, StepDone(idx, "catch notify", outcome))
    /\ NextStudio(hasError)
    /\ UNCHANGED <<env, studios, hasError, lastPost, slackPosts>>
    /\ UNCHANGED <<freeVars, availVars, postVars, genVars, countVars>>

NextMain ==
    \/ MainStart
    \/ AvailabilitySettles
    \/ PostSettles
    \/ NotifySettles
    \/ CatchNotifySettles

SpecMain == InitMain /\ [][NextMain]_vars

\* ------------------------------------------------------------------------
\* generator.ts: slotsToString and generatePost
\* ------------------------------------------------------------------------
\* A string is a sequence of tokens.  The tokens of the templates are the
\* brackets of the title, the line break, the wave dash and the comma, the
\* four SEO/MEO keywords, the placeholders ${...}, and the stretches of other
\* text between them, numbered in order of first appearance in generator.ts.
Token(s, n) == [s |-> s, n |-> n]

LB == Token("LB", 0)
RB == Token("RB", 0)
NL == Token("NL", 0)
Tilde == Token("~", 0)
Comma == Token(",", 0)
Dash == Token(" - ", 0)
Lit(k) == Token("lit", k)

\* the keywords of the file header, in its order
KwPlace == Token("Temmabashi", 0)
KwOpen24h == Token("open 24 hours", 0)
KwAllYear == Token("open all year", 0)
KwRental == Token("rental studio", 0)
Keywords == {KwPlace, KwOpen24h, KwAllYear, KwRental}

PhTodayLabel == Token("${todayLabel}", 0)
PhSlotStr == Token("${slotStr}", 0)
PhPeakStart == Token("${peakStartStr}", 0)
PhPeakEnd == Token("${peakEndStr}", 0)

\* template literal evaluation: every placeholder gives way to its string
RECURSIVE Fill(_, _, _, _, _)
Fill(tpl, today, peakStart, peakEnd, str) ==
    IF tpl = <<>> THEN <<>>
    ELSE LET t == Head(tpl)
             here == IF t = PhTodayLabel THEN today
                     ELSE IF t = PhSlotStr THEN str
                     ELSE IF t = PhPeakStart THEN peakStart
                     ELSE IF t = PhPeakEnd THEN peakEnd
                     ELSE <<t>>
         IN  here \o Fill(Tail(tpl), today, peakStart, peakEnd, str)

\* the todayLabel of formatTodayLabel as it stands in a text
LabelText(label) ==
    <<Token("month", label.month), Token("date", label.date), Token("day", label.day)>>

\* the templates of the first generator.ts, by case
Templates1 ==
    [B |-> \* generator.ts 88-91
        <<
          <<LB, Lit(1), RB, Lit(2), PhTodayLabel, Lit(3), KwPlace, Lit(4),
            KwOpen24h, Lit(5), KwAllYear, Lit(4), KwRental, Lit(6), Comma,
            Lit(7), Comma, Lit(8), Comma, Lit(9)>>,
          <<LB, PhTodayLabel, Lit(10), RB, KwPlace, Lit(11), KwOpen24h,
            Lit(5), KwAllYear, Lit(4), KwRental, Lit(12)>>,
          <<LB, Lit(13), RB, PhTodayLabel, Comma, Lit(14), KwPlace, Lit(4),
            KwOpen24h, Lit(5), KwAllYear, Lit(15), Comma, Lit(16)>>,
          <<LB, PhTodayLabel, Lit(17), RB, KwPlace, Lit(4), KwOpen24h,
            Lit(5), KwAllYear, KwRental, Comma, Lit(18), Comma, Lit(19)>>>>,
     A |-> \* generator.ts 102-105
        <<
          <<LB, Lit(2), PhPeakStart, Tilde, PhPeakEnd, Lit(20), RB,
            PhTodayLabel, Comma, KwPlace, Lit(4), KwOpen24h, Lit(5),
            KwAllYear, KwRental, Lit(21), PhSlotStr>>,
          <<LB, PhTodayLabel, Lit(22), PhPeakStart, Lit(23), RB, KwPlace,
            Lit(4), KwAllYear, Lit(5), KwOpen24h, KwRental, Lit(24),
            PhSlotStr, Lit(25)>>,
          <<LB, Lit(26), PhPeakStart, Tilde, Lit(27), RB, PhTodayLabel,
            Lit(28), PhSlotStr, Lit(29), KwPlace, Lit(30), KwOpen24h,
            Lit(5), KwAllYear, KwRental, Lit(31)>>,
          <<LB, PhPeakStart, Tilde, PhPeakEnd, Lit(32), RB, PhTodayLabel,
            Comma, KwPlace, Lit(33), PhSlotStr, Lit(34), KwOpen24h, Lit(5),
            KwAllYear, Lit(35)>>>>,
     C |-> \* generator.ts 116-119
        <<
          <<LB, PhTodayLabel, Lit(36), RB, KwPlace, Lit(4), KwOpen24h,
            Lit(5), KwAllYear, KwRental, Lit(37), PhSlotStr, Lit(38)>>,
          <<LB, Lit(39), RB, PhTodayLabel, Comma, KwPlace, Lit(4),
            KwAllYear, Lit(5), KwOpen24h, Lit(40), PhSlotStr, Lit(41)>>,
          <<LB, PhTodayLabel, Lit(42), RB, KwPlace, Lit(43), PhSlotStr,
            Lit(44), KwOpen24h, Lit(5), KwAllYear, Lit(45)>>,
          <<LB, Lit(46), RB, PhTodayLabel, Lit(47), PhSlotStr, Lit(44),
            KwPlace, Lit(4), KwOpen24h, Lit(5), KwAllYear, KwRental,
            Lit(11), Comma, Lit(48)>>>>]

\* the templates of the second generator.ts, by case
Templates2 ==
    [B |-> \* generator.ts 211-214
        <<
          <<LB, Lit(1), RB, Lit(49), NL, KwPlace, Lit(4), KwOpen24h, Lit(5),
            KwAllYear, Lit(4), KwRental, Lit(50)>>,
          <<LB, Lit(51), RB, Lit(52), NL, KwPlace, Lit(53), KwAllYear,
            Lit(15), Comma, Lit(54)>>,
          <<LB, Lit(55), RB, Lit(56), Comma, Lit(57), NL, KwPlace, Lit(58),
            Comma, Lit(59)>>,
          <<LB, Lit(60), RB, Lit(61), NL, KwOpen24h, Lit(5), KwAllYear,
            Lit(4), KwPlace, Lit(15), Comma, Lit(62)>>>>,
     A |-> \* generator.ts 223-224
        <<
          <<LB, Lit(63), RB, KwPlace, Lit(4), KwOpen24h, Lit(5), KwAllYear,
            Lit(64), Comma, Lit(65), NL, Lit(66)>>,
          <<LB, Lit(67), RB, Lit(2), Comma, Lit(68), NL, KwPlace, Lit(69),
            Comma, Lit(70)>>>>,
     C |-> \* generator.ts 233-234
        <<
          <<LB, Lit(71), RB, KwPlace, Lit(4), KwOpen24h, Lit(5), KwAllYear,
            Lit(72), Comma, Lit(73), NL, Lit(74), Comma, Lit(75)>>,
          <<LB, Lit(76), RB, Lit(77), NL, Lit(78), Comma, Lit(79), KwPlace,
            Lit(80)>>>>]

\* the first generator.ts: const FOOTER
FOOTER == <<NL, NL, Lit(81), NL, Lit(82)>>

\* the second generator.ts: makeFooter(slotStr)
makeFooter(str) ==
    Fill(<<NL, NL, Lit(83), NL, PhSlotStr, NL, NL, Lit(84), Comma, Lit(85), NL,
           Lit(86), NL, NL, Lit(87)>>,
         <<>>, <<>>, <<>>, str)

\* arr[Math.floor(Math.random() * arr.length)], Math.random() = rnd / RandomSteps
pick(arr, rnd) == arr[(rnd * Len(arr)) \div RandomSteps + 1]

\* `${h}` followed by the hour sign
formatHour(h) == <<Token("hour", h)>>

\* variant: the hour of the instant in UTC
HourOfUTC(ms, zone) == (ms % DayMs) \div HourMs

\* dayjs(iso).tz(tz).hour()
HourOf(ms, zone) == (LocalMs(ms, zone) % DayMs) \div HourMs

\* the minute of dayjs(iso).tz(tz)
MinuteOf(ms, zone) == ((LocalMs(ms, zone) % HourMs) * HourMinutes) \div HourMs

\* dayjs(iso).tz(tz).format('HH:mm')
ClockOf(ms, zone) == Token("HH:mm", HourOf(ms, zone) * HourMinutes + MinuteOf(ms, zone))

\* the callback of slots.map in the two generator.ts
SlotEntry(slot, zone, snap) ==
    IF snap = 1
    THEN formatHour(HourOf(ParseISO(slot.start), zone)) \o <<Tilde>>
         \o formatHour(HourOf(ParseISO(slot.end), zone))
    ELSE <<ClockOf(ParseISO(slot.start), zone), Dash, ClockOf(ParseISO(slot.end), zone)>>

\* the argument of join in the two generator.ts
Separator(snap) == IF snap = 1 THEN Comma ELSE NL

\* Array.prototype.join
RECURSIVE Join(_, _)
Join(entries, sep) ==
    IF entries = <<>> THEN <<>>
    ELSE IF Len(entries) = 1 THEN entries[1]
    ELSE entries[1] \o <<sep>> \o Join(Tail(entries), sep)

slotsToString(slots, zone, snap) ==
    Join([i \in 1 .. Len(slots) |-> SlotEntry(slots[i], zone, snap)], Separator(snap))

\* variant: no slice
AllSlots(slots) == slots

\* freeSlots.slice(0, 3)
FirstThree(slots) == SubSeq(slots, 1, Min(3, Len(slots)))

\* variant: the free slots whatever the case
ShownAlwaysFree(av, snap) == FirstThree(av.freeSlots)

\* the slots that the three branches pass to slotsToString; the first
\* generator.ts builds no slot string in the branch of case B
ShownSlots(av, snap) ==
    IF av.case = "B" THEN (IF snap = 1 THEN <<>> ELSE av.freeSlots)
    ELSE IF av.case = "A" THEN av.peakFreeSlots
    ELSE FirstThree(av.freeSlots)

\* the branches test 'B', then 'A'; every other value takes the last branch
BranchOf(av) == IF av.case \in {"A", "B"} THEN av.case ELSE "C"

\* const templates of the branch taken
TemplatesOf(av, snap) == IF snap = 1 THEN Templates1[BranchOf(av)] ELSE Templates2[BranchOf(av)]

\* let body: the template that pick returns, evaluated
BodyText(av, opts, snap, rnd) ==
    LET peak == IF av.isWeekend THEN opts.peakHours.weekend ELSE opts.peakHours.weekday
    IN  Fill(pick(TemplatesOf(av, snap), rnd),
             LabelText(av.todayLabel),
             formatHour(peak.start),
             formatHour(peak.end),
             slotsToString(ShownSlots(av, snap), opts.timezone, snap))

\* variant: nothing follows the body
NoFooter(av, opts, snap) == <<>>

\* what generatePost appends to the body
FooterOf(av, opts, snap) ==
    IF snap = 1 THEN FOOTER
    ELSE makeFooter(slotsToString(ShownSlots(av, snap), opts.timezone, snap))

generatePost(av, opts, snap, rnd) ==
    BodyText(av, opts, snap, rnd) \o FooterOf(av, opts, snap)

\* ------------------------------------------------------------------------
\* Inputs of the generator
\* ------------------------------------------------------------------------
\* the instant `now` of the availability results of the model
GenNow == 1 * DayMs + 3 * HourMs

\* 2 * MaxSlots instants of the studio's day, in order, every other one off
\* the full hour
SlotPoint(k, zone) ==
    StartOfDay(GenNow, zone) + (k - 1) * (DayMs \div (2 * MaxSlots)) + ((k - 1) % 2)

\* MaxSlots free slots of the day, in order, with gaps between them
SlotChain(zone) ==
    [k \in 1 .. MaxSlots |-> TimeSlot(SlotPoint(2 * k - 1, zone), SlotPoint(2 * k, zone))]

\* the elements of a sequence at the positions of a set, in order
RECURSIVE Pick(_, _)
Pick(seq, positions) ==
    IF seq = <<>> THEN <<>>
    ELSE LET rest == Pick(SubSeq(seq, 1, Len(seq) - 1), positions)
         IN  IF Len(seq) \in positions THEN Append(rest, seq[Len(seq)]) ELSE rest

\* the lists of free slots: every selection of slots of the chain
SlotLists(zone) == {Pick(SlotChain(zone), ps) : ps \in SUBSET (1 .. MaxSlots)}

\* the lists of peak free slots: the README's weekday window whole, in two
\* parts, and none
PeakLists(zone) ==
    LET at(h) == AtHour(StartOfDay(GenNow, zone), h)
    IN  {<<>>,
         <<TimeSlot(at(17), at(21))>>,
         <<TimeSlot(at(17), at(18)), TimeSlot(at(19), at(21))>>}

ReadmePeakHours ==
    [weekday |-> [start |-> 17, end |-> 21], weekend |-> [start |-> 13, end |-> 17]]

\* ------------------------------------------------------------------------
\* Specification of the generator
\* ------------------------------------------------------------------------
InitGen ==
    /\ snapshot \in {1, 2}
    /\ random \in 0 .. (RandomSteps - 1)
    /\ \E zone \in TzOffsets :
          /\ options = [timezone |-> zone, peakHours |-> ReadmePeakHours]
          /\ availability \in
                {[case |-> c, freeSlots |-> fs, peakFreeSlots |-> ps,
                  isWeekend |-> w, todayLabel |-> formatTodayLabel(GenNow, zone)] :
                     c \in {"A", "B", "C"}, fs \in SlotLists(zone),
                     ps \in PeakLists(zone), w \in BOOLEAN}
    /\ slotStr = <<>>
    /\ post = <<>>
    /\ gpc = "ready"
    /\ FreeIdle
    /\ AvailIdle
    /\ PostIdle
    /\ MainIdle
    /\ CountIdle

\* a call slotsToString(availability.freeSlots, options.timezone)
CallSlotsToString ==
    /\ gpc = "ready"
    /\ slotStr' = slotsToString(availability.freeSlots, options.timezone, snapshot)
    /\ gpc' = "rendered"
    /\ UNCHANGED <<availability, options, snapshot, random, post>>
    /\ UNCHANGED <<freeVars, availVars, postVars, mainVars, countVars>>

\* a call generatePost(availability, options)
CallGeneratePost ==
    /\ gpc = "ready"
    /\ post' = generatePost(availability, options, snapshot, random)
    /\ gpc' = "generated"
    /\ UNCHANGED <<availability, options, snapshot, random, slotStr>>
    /\ UNCHANGED <<freeVars, availVars, postVars, mainVars, countVars>>

NextGen == CallSlotsToString \/ CallGeneratePost

SpecGen == InitGen /\ [][NextGen]_vars

\* ------------------------------------------------------------------------
\* Properties of calcFreeSlots
\* ------------------------------------------------------------------------
WellFormed(busy) == \A j \in 1 .. Len(busy) : busy[j][1] < busy[j][2]

\* instant t lies in some busy interval [start, end)
InBusy(busy, t) == \E j \in 1 .. Len(busy) : busy[j][1] <= t /\ t < busy[j][2]

\* the free slots [start, end) that hold instant t
SlotsHolding(slots, t) ==
    {k \in 1 .. Len(slots) : SlotStart(slots[k]) <= t /\ t < SlotEnd(slots[k])}

Returned == pc = "returned"

\* C1: coverage. After a call on well-formed busy intervals every instant t
\* of the day window, dayStart <= t < dayEnd, lies in exactly one returned
\* free slot when no busy interval holds it, and in no returned free slot
\* when some busy interval holds it.
C1_Coverage ==
    (Returned /\ WellFormed(busyIntervals)) =>
        \A t \in dayStart .. dayEnd - 1 :
            Cardinality(SlotsHolding(freeSlots, t)) =
                (IF InBusy(busyIntervals, t) THEN 0 ELSE 1)

\* a call returned at least two free slots around nested busy intervals
C1_Witness ==
    /\ Returned
    /\ WellFormed(busyIntervals)
    /\ Len(freeSlots) = 2
    /\ \E i, j \in 1 .. Len(busyIntervals) :
          /\ busyIntervals[i] # busyIntervals[j]
          /\ busyIntervals[i][1] <= busyIntervals[j][1]
          /\ busyIntervals[j][2] <= busyIntervals[i][2]
          /\ dayStart < busyIntervals[i][1]
          /\ busyIntervals[i][2] < dayEnd

\* C2: the returned sequence is sorted by start and two consecutive free
\* slots p, q are separated by a strictly positive gap, p.end < q.start.
C2_SortedWithGaps ==
    (Returned /\ WellFormed(busyIntervals)) =>
        \A k \in 1 .. Len(freeSlots) - 1 :
            /\ SlotStart(freeSlots[k]) < SlotStart(freeSlots[k + 1])
            /\ SlotEnd(freeSlots[k]) < SlotStart(freeSlots[k + 1])

\* a call on two adjacent busy intervals (one ends where the next starts)
\* returned a free slot before and a free slot after them
C2_Witness ==
    /\ Returned
    /\ Len(freeSlots) = 2
    /\ \E i, j \in 1 .. Len(busyIntervals) :
          /\ busyIntervals[i][2] = busyIntervals[j][1]
          /\ SlotEnd(freeSlots[1]) = busyIntervals[i][1]
          /\ SlotStart(freeSlots[2]) = busyIntervals[j][2]

IndexPermutations(n) ==
    {f \in [1 .. n -> 1 .. n] : \A a, b \in 1 .. n : f[a] = f[b] => a = b}

\* C3: order independence. What a call returned is what calcFreeSlots
\* returns for every permutation of the same busy intervals, also when
\* several intervals share a start.
C3_OrderIndependent ==
    (Returned /\ WellFormed(busyIntervals)) =>
        \A f \in IndexPermutations(Len(busyIntervals)) :
            calcFreeSlots(dayStart, dayEnd,
                          [k \in 1 .. Len(busyIntervals) |-> busyIntervals[f[k]]])
                = freeSlots

\* a call returned free slots for a list in which two intervals share their
\* start and differ in their end, the longer one first
C3_Witness ==
    /\ Returned
    /\ Len(freeSlots) = 2
    /\ \E i \in 1 .. Len(busyIntervals) - 1 :
          /\ busyIntervals[i][1] = busyIntervals[i + 1][1]
          /\ busyIntervals[i][2] > busyIntervals[i + 1][2]

\* interval inner lies within interval outer (a duplicate does)
Within(inner, outer) == outer[1] <= inner[1] /\ inner[2] <= outer[2]

\* C4: adding, at any position, a duplicate of a busy interval of the list,
\* or a busy interval that lies within one of the list, does not change what
\* calcFreeSlots returns.
C4_ContainedIntervalNoEffect ==
    (Returned /\ WellFormed(busyIntervals)) =>
        \A iv \in Intervals, pos \in 1 .. Len(busyIntervals) + 1 :
            (\E j \in 1 .. Len(busyIntervals) : Within(iv, busyIntervals[j])) =>
                calcFreeSlots(dayStart, dayEnd, InsertAt(busyIntervals, pos, iv))
                    = freeSlots

\* a call returned free slots for a list that holds an interval and its
\* duplicate, to which an interval strictly within them can be added
C4_Witness ==
    /\ Returned
    /\ Len(freeSlots) >= 1
    /\ \E i, j \in 1 .. Len(busyIntervals) :
          /\ i # j
          /\ busyIntervals[i] = busyIntervals[j]
          /\ \E iv \in Intervals :
                busyIntervals[i][1] < iv[1] /\ iv[2] < busyIntervals[i][2]

\* C9: every returned free slot lies inside the day window,
\* dayStart <= slot.start and slot.end <= dayEnd, also for busy intervals
\* that start before dayStart, end after dayEnd or lie outside the window.
C9_SlotsInsideWindow ==
    (Returned /\ WellFormed(busyIntervals)) =>
        \A k \in 1 .. Len(freeSlots) :
            /\ dayStart <= SlotStart(freeSlots[k])
            /\ SlotEnd(freeSlots[k]) <= dayEnd

\* ------------------------------------------------------------------------
\* Properties of getAvailability
\* ------------------------------------------------------------------------
AvReturned == apc = "returned"

\* the return after the CASE B check: at least one event was fetched
GeneralPath == AvReturned /\ Len(events) > 0

\* the day window and the peak window of the running call
TodayStart == StartOfDay(now, tz)
TodayEnd == EndOfDay(now, tz)
PeakStart == AtHour(TodayStart, PeakOf(IsWeekend(now, tz), peakHours).start)
PeakEnd == AtHour(TodayStart, PeakOf(IsWeekend(now, tz), peakHours).end)

\* C5: whenever the busy-interval list of the day is empty (no event was
\* fetched, or every fetched event lacks start or end), getAvailability
\* returns case B, the one free slot [todayStart, todayEnd] and no peak-free
\* slot.
C5_EmptyBusyIsCaseB ==
    (AvReturned /\ BusyOf(events, runtimeTz) = <<>>) =>
        /\ result.case = "B"
        /\ result.freeSlots = <<TimeSlot(TodayStart, TodayEnd)>>
        /\ result.peakFreeSlots = <<>>

C7_CaseRule ==
    AvReturned =>
        /\ result.case \in {"A", "B", "C"}
        /\ result.case = "B" <=> Len(events) = 0
        /\ Len(events) > 0 => (result.case = "A" <=> result.peakFreeSlots # <<>>)
        /\ Len(events) > 0 => (result.case = "C" <=> result.peakFreeSlots = <<>>)
        /\ result.peakFreeSlots # <<>> => result.case = "A"

\* getAvailability returned case C for a day with events, free slots and a
\* peak window of positive length that holds no free time
C7_Witness ==
    /\ GeneralPath
    /\ result.case = "C"
    /\ Len(result.freeSlots) >= 1
    /\ PeakStart < PeakEnd

\* the intersections with the peak window of the slots that overlap it
Intersections(slots, peakStart, peakEnd) ==
    LET overlapping ==
            SelectSeq(slots, LAMBDA sl : SlotStart(sl) < peakEnd /\ SlotEnd(sl) > peakStart)
    IN  [k \in 1 .. Len(overlapping) |->
            TimeSlot(Max(SlotStart(overlapping[k]), peakStart),
                     Min(SlotEnd(overlapping[k]), peakEnd))]

\* C8 as stated: on the general path peakFreeSlots is, in free-slot order,
\* the list of the intersections [max(slot.start, peakStart),
\* min(slot.end, peakEnd)) of the free slots with slot.start < peakEnd and
\* slot.end > peakStart.
C8_PeakClampAsStated ==
    GeneralPath =>
        result.peakFreeSlots = Intersections(result.freeSlots, PeakStart, PeakEnd)

\* C8 as amended: that holds when the peak window has positive length,
\* peakStart < peakEnd; for a peak window with peakStart >= peakEnd
\* peakFreeSlots is empty.
C8_PeakClamp ==
    GeneralPath =>
        result.peakFreeSlots =
            (IF PeakStart < PeakEnd
             THEN Intersections(result.freeSlots, PeakStart, PeakEnd)
             ELSE <<>>)

\* on the general path one free slot ends where the peak window starts and
\* another reaches into the peak window and is cut to it
C8_Witness ==
    /\ GeneralPath
    /\ PeakStart < PeakEnd
    /\ Len(result.peakFreeSlots) = 1
    /\ \E k \in 1 .. Len(result.freeSlots) :
          SlotEnd(result.freeSlots[k]) = PeakStart
    /\ \E k \in 1 .. Len(result.freeSlots) :
          /\ SlotStart(result.freeSlots[k]) < PeakEnd
          /\ SlotEnd(result.freeSlots[k]) > PeakEnd
          /\ result.freeSlots[k] # result.peakFreeSlots[1]

\* local midnight of the current day in the studio's zone: the one instant m
\* with m <= now < m + DayMs whose wall clock in that zone reads 00:00
LocalMidnight ==
    CHOOSE m \in (now - DayMs + 1) .. now : LocalMs(m, tz) % DayMs = 0

\* the day window getAvailability uses is [from, to]: in the calendar query,
\* in the call of calcFreeSlots and in the free slot of case B
WindowIs(from, to) ==
    /\ apc \in {"awaiting", "returned"} =>
          query = [timeMin |-> ToISOString(from), timeMax |-> ToISOString(to)]
    /\ (AvReturned /\ pc = "returned") => (dayStart = from /\ dayEnd = to)
    /\ (AvReturned /\ result.case = "B") =>
          result.freeSlots = <<TimeSlot(from, to)>>

\* C10 as stated: the day window runs from local midnight of the current day
\* to the following local midnight (24:00 local) in the studio's zone.
C10_WindowToNextMidnight == WindowIs(LocalMidnight, LocalMidnight + DayMs)

\* C10 as amended: the day window runs from local midnight of the current
\* day to the last tick before the following local midnight (23:59:59.999
\* local) in the studio's zone, whatever zone the process runs in.
C10_WindowToEndOfDay == WindowIs(LocalMidnight, LocalMidnight + DayMs - 1)

\* a whole free day was reported for an Asia/Tokyo studio by a process that
\* runs in UTC, at an instant whose UTC date is not the studio's date
C10_Witness ==
    /\ AvReturned
    /\ result.case = "B"
    /\ tz = 9
    /\ runtimeTz = 0
    /\ LocalDay(now, tz) # LocalDay(now, runtimeTz)

\* ------------------------------------------------------------------------
\* Properties of createLocalPost
\* ------------------------------------------------------------------------
\* the promise of createLocalPost has settled
PostSettled == ppc \in {"returned", "thrown"}

\* the i-th attempt was made and failed: its fetch rejected, or it completed
\* with a response that is not OK
AttemptFailed(i) ==
    Len(responses) >= i /\ (responses[i].rejected \/ ~responses[i].ok)

\* the i-th attempt completed with a response that is not OK
CompletedNotOk(i) ==
    Len(responses) >= i /\ ~responses[i].rejected /\ ~responses[i].ok

\* C11: createLocalPost never throws: whatever the two attempts do, a fetch
\* that rejects included, the promise resolves to a PostResult, and when the
\* attempts made have all failed it is {success: false, retried: true, error}
C11_NeverThrows ==
    /\ ppc # "thrown"
    /\ (PostSettled /\ \A i \in 1 .. Len(requests) : AttemptFailed(i))
          => /\ ppc = "returned"
             /\ postResult.success = FALSE
             /\ postResult.retried = TRUE
             /\ postResult.error # NoError

MainExited == mpc = "exited"

\* processing of studio i failed: createLocalPost returned success: false,
\* or a step of the studio threw
StudioFailed(i) ==
    \E k \in 1 .. Len(steps) :
        steps[k].studio = i /\ steps[k].outcome \in {"threw", "failure"}

\* studio i was processed to the end of its pass of the loop
StudioProcessed(i) ==
    \E k \in 1 .. Len(steps) :
        /\ steps[k].studio = i
        /\ \/ steps[k].step = "notify" /\ steps[k].outcome = "ok"
           \/ steps[k].step = "catch notify"

\* C13: when processing of a studio fails, every later studio of the list is
\* still processed, and after the last studio the process exits with code 1
C13_FailureDoesNotStopLoop ==
    \A i \in 1 .. Len(studios) :
        StudioFailed(i)
          => /\ mpc # "entry"
             /\ MainExited
                  => /\ \A j \in i .. Len(studios) : StudioProcessed(j)
                     /\ exitCode = 1
             /\ ~MainExited => idx >= i /\ exitCode = -1

\* the first of two studios failed, the second was posted, the process ended
C13_Witness ==
    /\ MainExited
    /\ Len(studios) >= 2
    /\ StudioFailed(1)
    /\ ~StudioFailed(2)
    /\ StudioProcessed(2)
    /\ exitCode = 1

\* ------------------------------------------------------------------------
\* Properties of the generator
\* ------------------------------------------------------------------------
Rendered == gpc = "rendered"
Generated == gpc = "generated"

\* sub occurs in str as a run of consecutive tokens
Contains(str, sub) ==
    \E i \in 1 .. (Len(str) - Len(sub) + 1) : SubSeq(str, i, i + Len(sub) - 1) = sub

EndsWith(str, sub) ==
    Len(str) >= Len(sub) /\ SubSeq(str, Len(str) - Len(sub) + 1, Len(str)) = sub

StartsWith(str, sub) ==
    Len(str) >= Len(sub) /\ SubSeq(str, 1, Len(sub)) = sub

\* hour and minute of an ISO string on the studio's clock
StudioHour(iso, zone) == ((ParseISO(iso) + zone * HourMs) % DayMs) \div HourMs
StudioMinute(iso, zone) == (((ParseISO(iso) + zone * HourMs) % HourMs) * HourMinutes) \div HourMs

\* a slot as the two generator.ts show it: start and end on the studio's clock
ShownAs(slot, zone, snap) ==
    IF snap = 1
    THEN <<Token("hour", StudioHour(slot.start, zone)), Tilde,
           Token("hour", StudioHour(slot.end, zone))>>
    ELSE <<Token("HH:mm", StudioHour(slot.start, zone) * HourMinutes
                            + StudioMinute(slot.start, zone)),
           Dash,
           Token("HH:mm", StudioHour(slot.end, zone) * HourMinutes
                            + StudioMinute(slot.end, zone))>>

\* a list of slots shown one after the other with a separator between
ListShownAs(slots, zone, snap) ==
    Join([i \in 1 .. Len(slots) |-> ShownAs(slots[i], zone, snap)], Separator(snap))

\* the tokens of a string that show a time
TimesIn(str) == SelectSeq(str, LAMBDA t : t.s \in {"hour", "HH:mm"})

\* C14: for case C only the first three entries of freeSlots are rendered,
\* in their order; a fourth or later slot does not appear in the text,
\* whichever template is selected
C14_CaseCShowsFirstThree ==
    (Generated /\ availability.case = "C")
      => LET zone == options.timezone
             free == availability.freeSlots
             shown == SubSeq(free, 1, Min(3, Len(free)))
         IN  /\ Contains(post, ListShownAs(shown, zone, snapshot))
             /\ TimesIn(post) = TimesIn(ListShownAs(shown, zone, snapshot))
             /\ \A k \in 4 .. Len(free) :
                   (\A j \in 1 .. 3 : ShownAs(free[k], zone, snapshot)
                                         # ShownAs(free[j], zone, snapshot))
                     => ~Contains(post, ShownAs(free[k], zone, snapshot))

\* a post of case C made from four free slots
C14_Witness ==
    /\ Generated
    /\ availability.case = "C"
    /\ Len(availability.freeSlots) >= 4

\* C15 as stated: the slot list is chosen by the case alone: peakFreeSlots
\* for case A, freeSlots for case C, and the text contains the rendering of
\* every slot of that list
C15_EverySlotOfListShown ==
    Generated
      => LET zone == options.timezone
         IN  /\ availability.case = "A"
                  => \A k \in 1 .. Len(availability.peakFreeSlots) :
                        Contains(post, ShownAs(availability.peakFreeSlots[k], zone, snapshot))
             /\ availability.case = "C"
                  => \A k \in 1 .. Len(availability.freeSlots) :
                        Contains(post, ShownAs(availability.freeSlots[k], zone, snapshot))

\* C15, amended: the slot list is chosen by the case alone: for case A the
\* text contains the rendering of peakFreeSlots, whole, whatever freeSlots
\* holds; for case C it contains the rendering of the first three entries of
\* freeSlots and shows no other time
C15_SlotListByCase ==
    Generated
      => LET zone == options.timezone
             free == availability.freeSlots
             peakFree == availability.peakFreeSlots
             firstThree == SubSeq(free, 1, Min(3, Len(free)))
         IN  /\ availability.case = "A"
                  => /\ Contains(post, ListShownAs(peakFree, zone, snapshot))
                     /\ \A k \in 1 .. Len(peakFree) :
                           Contains(post, ShownAs(peakFree[k], zone, snapshot))
             /\ availability.case = "C"
                  => /\ Contains(post, ListShownAs(firstThree, zone, snapshot))
                     /\ \A k \in 1 .. Len(firstThree) :
                           Contains(post, ShownAs(firstThree[k], zone, snapshot))
                     /\ Len(TimesIn(post)) = 2 * Len(firstThree)

\* a post of case A whose peak free slots and free slots differ
C15_Witness ==
    /\ Generated
    /\ availability.case = "A"
    /\ Len(availability.peakFreeSlots) = 2
    /\ Len(availability.freeSlots) >= 1

\* the call to action that closes the footer of the two generator.ts
CallToAction(snap) ==
    IF snap = 1 THEN FOOTER
    ELSE <<NL, NL, Lit(84), Comma, Lit(85), NL, Lit(86), NL, NL, Lit(87)>>

\* C16: for every case and every template the text is the selected body
\* followed by the common footer, and so ends with the call to action
C16_BodyThenFooter ==
    Generated
      => /\ \E k \in 1 .. Len(TemplatesOf(availability, snapshot)) :
               LET peak == IF availability.isWeekend THEN options.peakHours.weekend
                           ELSE options.peakHours.weekday
                   body == Fill(TemplatesOf(availability, snapshot)[k],
                                LabelText(availability.todayLabel),
                                formatHour(peak.start), formatHour(peak.end),
                                ListShownAs(ShownSlots(availability, snapshot),
                                            options.timezone, snapshot))
               IN  /\ StartsWith(post, body)
                   /\ snapshot = 1 => post = body \o FOOTER
                   /\ snapshot # 1
                        => post = body \o <<NL, NL, Lit(83), NL>>
                                       \o ListShownAs(ShownSlots(availability, snapshot),
                                                      options.timezone, snapshot)
                                       \o CallToAction(snapshot)
         /\ EndsWith(post, CallToAction(snapshot))

\* a post made from the last template of case A
C16_Witness ==
    /\ Generated
    /\ availability.case = "A"
    /\ random = RandomSteps - 1

\* C17: for every case and every template the text contains the four
\* SEO/MEO keywords
C17_AllKeywords ==
    Generated => \A kw \in Keywords : \E i \in 1 .. Len(post) : post[i] = kw

\* C18: slotsToString maps n slots to n entries in input order joined by
\* n - 1 separators; no slot gives the empty string, one slot one entry
\* without separator; an entry shows start and end on the studio's clock
C18_SlotsToString ==
    Rendered
      => LET slots == availability.freeSlots
             n == Len(slots)
             zone == options.timezone
         IN  /\ n = 0 => slotStr = <<>>
             /\ n = 1 => slotStr = ShownAs(slots[1], zone, snapshot)
             /\ n >= 1 => Len(slotStr) = 3 * n + (n - 1)
             /\ \A i \in 1 .. n :
                   SubSeq(slotStr, 4 * i - 3, 4 * i - 1) = ShownAs(slots[i], zone, snapshot)
             /\ \A i \in 1 .. (n - 1) : slotStr[4 * i] = Separator(snapshot)
             /\ Cardinality({i \in 1 .. Len(slotStr) : slotStr[i] = Separator(snapshot)})
                  = Max(n - 1, 0)

\* three slots rendered for a studio in Asia/Tokyo
C18_Witness ==
    /\ Rendered
    /\ Len(availability.freeSlots) >= 3
    /\ options.timezone = 9
    /\ Len(slotStr) = 11

\* ------------------------------------------------------------------------
\* Further properties of getAvailability
\* ------------------------------------------------------------------------
PositiveLength(slot) == ParseISO(slot.start) < ParseISO(slot.end)

\* C19: every interval of an AvailabilityResult has positive duration: each
\* free slot that calcFreeSlots emits for a window dayStart < dayEnd, and
\* each entry of peakFreeSlots for every peak-hour setting, the settings
\* whose start hour is not below the end hour included
C19_PositiveDuration ==
    AvReturned
      => /\ dayStart < dayEnd
              => \A i \in 1 .. Len(freeSlots) : PositiveLength(freeSlots[i])
         /\ \A i \in 1 .. Len(result.freeSlots) : PositiveLength(result.freeSlots[i])
         /\ \A i \in 1 .. Len(result.peakFreeSlots) :
               PositiveLength(result.peakFreeSlots[i])

\* a result with free slots around a peak window that ends before it starts
C19_Witness ==
    /\ AvReturned
    /\ GeneralPath
    /\ PeakStart > PeakEnd
    /\ \E i \in 1 .. Len(result.freeSlots) :
          /\ SlotStart(result.freeSlots[i]) < PeakEnd
          /\ SlotEnd(result.freeSlots[i]) > PeakStart
    /\ result.peakFreeSlots = <<>>

\* the events are one all-day event on today's date of the studio
OneAllDayEvent ==
    events = <<[start |-> DateOnly(LocalDay(now, tz)),
                end |-> DateOnly(LocalDay(now, tz) + 1)]>>

\* C20: an all-day event on today's date becomes a busy interval that starts
\* at local midnight of the studio's zone, whatever zone the process runs
\* in: the day has no free slot and the case is C
C20_AllDayEventFillsDay ==
    (AvReturned /\ OneAllDayEvent)
      => /\ busyIntervals[1][1] = StartOfDay(now, tz)
         /\ result.freeSlots = <<>>
         /\ result.case = "C"

\* the current day on the studio's calendar is a Saturday or a Sunday
SaturdayOrSunday ==
    LET localDay == (now + tz * HourMs) \div DayMs
    IN  (localDay + EpochWeekday) % 7 \in {0, 6}

\* the variant of the setting for such a day
VariantFor(weekend) == IF weekend THEN peakHours.weekend ELSE peakHours.weekday

\* C21: the peak window behind peakFreeSlots is the weekend variant exactly
\* when the day in the studio's zone is a Saturday or a Sunday; the isWeekend
\* flag of the result names the variant used, so that generatePost, which
\* selects by isWeekend, refers to the same window
C21_PeakVariantByLocalDay ==
    AvReturned
      => LET used == VariantFor(SaturdayOrSunday)
             from == AtHour(StartOfDay(now, tz), used.start)
             to == AtHour(StartOfDay(now, tz), used.end)
         IN  /\ result.isWeekend = SaturdayOrSunday
             /\ (IF result.isWeekend THEN peakHours.weekend ELSE peakHours.weekday) = used
             /\ GeneralPath
                  => result.peakFreeSlots =
                        (IF from < to THEN Intersections(result.freeSlots, from, to)
                         ELSE <<>>)

\* a Saturday in Asia/Tokyo that is still Friday in UTC, with a free slot in
\* the weekend window
C21_Witness ==
    /\ GeneralPath
    /\ SaturdayOrSunday
    /\ ((now \div DayMs) + EpochWeekday) % 7 \notin {0, 6}
    /\ peakHours.weekend # peakHours.weekday
    /\ result.isWeekend
    /\ result.peakFreeSlots # <<>>

Describes(error, response) ==
    error = <<"HTTP", response.status,
              IF response.readable THEN response.text
              ELSE "(could not read response body)">>

\* C23: of every PostResult returned: retried is false exactly when the
\* first attempt succeeded; success is false only when two attempts were made
\* and both failed; error is set exactly when success is false, and then
\* describes status and body of the second attempt, not of the first
C23_PostResultShape ==
    ppc = "returned"
      => /\ postResult.retried = FALSE <=> responses[1].ok
         /\ postResult.success = FALSE
              => /\ Len(requests) = 2
                 /\ Len(responses) = 2
                 /\ AttemptFailed(1)
                 /\ AttemptFailed(2)
         /\ postResult.error # NoError <=> postResult.success = FALSE
         /\ postResult.success = FALSE => Describes(postResult.error, responses[2])

\* a call failed twice, with a different status and body each time
C23_Witness ==
    /\ ppc = "returned"
    /\ postResult.success = FALSE
    /\ responses[1].status # responses[2].status
    /\ responses[1].text # responses[2].text
    /\ responses[2].readable

\* ------------------------------------------------------------------------
\* Further properties of main
\* ------------------------------------------------------------------------
\* one of the four required variables is not set
RequiredMissing ==
    \E v \in {"GOOGLE_CLIENT_ID", "GOOGLE_CLIENT_SECRET", "GOOGLE_REFRESH_TOKEN",
              "MAKE_WEBHOOK_URL"} : v \notin env

\* C24: when one of GOOGLE_CLIENT_ID, GOOGLE_CLIENT_SECRET,
\* GOOGLE_REFRESH_TOKEN, MAKE_WEBHOOK_URL is missing, main fails before the
\* studio configuration is read and before a calendar fetch, a post or a
\* Slack notification is made for any studio; the process exits with code 1
C24_MissingEnvFailsFirst ==
    RequiredMissing
      => /\ steps = <<>>
         /\ slackPosts = <<>>
         /\ idx = 0
         /\ mpc \in {"entry", "exited"}
         /\ MainExited => exitCode = 1

\* main ended for an environment without MAKE_WEBHOOK_URL, with a Slack
\* webhook set and studios configured
C24_Witness ==
    /\ MainExited
    /\ "MAKE_WEBHOOK_URL" \notin env
    /\ "SLACK_WEBHOOK_URL" \in env
    /\ Len(studios) >= 1
    /\ exitCode = 1

\* the place of a step in the pass of one studio
StepRank(step) ==
    CASE step = "readConfig" -> 0
      [] step = "getAvailability" -> 1
      [] step = "generatePost" -> 2
      [] step = "createLocalPost" -> 3
      [] step = "notify" -> 4
      [] step = "catch notify" -> 5

\* the notification of the studio of step k has completed or failed for good
NotificationOver(k) ==
    \/ steps[k].step = "notify" /\ steps[k].outcome = "ok"
    \/ steps[k].step = "catch notify"

\* C25: studios are processed one after another in the order of the
\* configuration; within a studio the steps come in the order fetch
\* availability, generate text, post, notify; a post is attempted only after
\* the availability of that studio was obtained without error; no step of
\* the next studio starts before the notification of the current one has
\* completed or failed
C25_StepOrder ==
    /\ \A k \in 1 .. Len(steps) - 1 :
          \/ /\ steps[k + 1].studio = steps[k].studio
             /\ StepRank(steps[k + 1].step) > StepRank(steps[k].step)
          \/ /\ steps[k + 1].studio = steps[k].studio + 1
             /\ steps[k + 1].step = "getAvailability"
             /\ steps[k].studio = 0 \/ NotificationOver(k)
    /\ \A k \in 1 .. Len(steps) :
          /\ steps[k].studio <= idx
          /\ steps[k].studio >= 1 => studios[steps[k].studio] = steps[k].studio
          /\ steps[k].step = "createLocalPost"
               => \E j \in 1 .. (k - 1) :
                     /\ steps[j].studio = steps[k].studio
                     /\ steps[j].step = "getAvailability"
                     /\ steps[j].outcome \in {"A", "B", "C"}
    /\ \A i \in 1 .. (idx - 1) :
          \E k \in 1 .. Len(steps) : steps[k].studio = i /\ NotificationOver(k)
    /\ mpc = "posting"
         => /\ steps[Len(steps)] = StepDone(idx, "generatePost", "ok")
            /\ steps[Len(steps) - 1].step = "getAvailability"
            /\ steps[Len(steps) - 1].studio = idx
    /\ mpc = "notifying" => steps[Len(steps)].step = "createLocalPost"

\* two studios were posted and notified in turn
C25_Witness ==
    /\ MainExited
    /\ Len(studios) >= 2
    /\ \E j, k \in 1 .. Len(steps) :
          /\ j < k
          /\ steps[j] = StepDone(1, "notify", "ok")
          /\ steps[k] = StepDone(2, "notify", "ok")

\* the notify calls that have settled, in order, and the one in progress
NotifySteps == SelectSeq(steps, LAMBDA st : st.step \in {"notify", "catch notify"})
NotifyInProgress == mpc \in {"notifying", "catchNotifying"}
NotifyCallsMade == Len(NotifySteps) + (IF NotifyInProgress THEN 1 ELSE 0)

EveryPostSucceeded ==
    \A i \in 1 .. Len(studios) :
        /\ \E k \in 1 .. Len(steps) :
              /\ steps[k].studio = i
              /\ steps[k].step = "getAvailability"
              /\ steps[k].outcome \in {"A", "B", "C"}
        /\ \E k \in 1 .. Len(steps) :
              steps[k] = StepDone(i, "createLocalPost", "success")

endHourExclusive(end, zone) ==
    IF MinuteOf(end, zone) > 0 THEN HourOf(end, zone) + 1 ELSE HourOf(end, zone)

\* the values h takes in
\* for (let h = startHour; h < endHourExclusive && h < 24; h++)
LoopHours(booking, zone) ==
    {h \in HourOf(booking.start, zone) .. endHourExclusive(booking.end, zone) - 1 :
        h < DayHours}

\* s.day() === 0 || s.day() === 6 ? weekend : weekday
ArrayOf(booking, zone) ==
    IF IsWeekend(booking.start, zone) THEN "weekend" ELSE "weekday"

\* one pass of the for-of loop: counts[h]++ for every h of the inner loop
CountOne(c, booking, zone) ==
    [c EXCEPT ![ArrayOf(booking, zone)] =
        [h \in 0 .. DayHours - 1 |->
            IF h \in LoopHours(booking, zone) THEN @[h] + 1 ELSE @[h]]]

\* the instant of a clock time of the UTC day with that number
Instant(day, hour, part) == day * DayMs + hour * HourMs + part

\* clock times <<hour, part of an hour>> of start and end: a booking ending on
\* the hour, one ending inside an hour, an afternoon booking, a booking that
\* runs past midnight (25 is 01:00 of the following day), a booking that ends
\* at midnight
BookingShapes ==
    {<<10, 0, 12, 0>>, <<10, 0, 12, 1>>, <<13, 0, 16, 0>>,
     <<22, 0, 25, 0>>, <<23, 1, 24, 0>>}

\* 1970-01-01, a Thursday, and 1970-01-03, a Saturday
BookingDays == {0, 2}

\* the { start, end } pairs main builds from the timed events of the calendar
Bookings ==
    {[start |-> Instant(d, b[1], b[2]), end |-> Instant(d, b[3], b[4])] :
        d \in BookingDays, b \in BookingShapes}

\* studio.timezone: UTC and Asia/Tokyo
BookingZones == {0, 9}

InitCount ==
    /\ bookingEvents \in SeqsUpTo(Bookings, MaxEvents)
    /\ bookingTz \in BookingZones
    /\ counts = NoCounts
    /\ position = 0
    /\ cpc = "counting"
    /\ FreeIdle
    /\ AvailIdle
    /\ PostIdle
    /\ MainIdle
    /\ GenIdle

\* the body of for (const { start, end } of events), for the next booking
CountBooking ==
    /\ cpc = "counting"
    /\ position < Len(bookingEvents)
    /\ position' = position + 1
    /\ counts' = CountOne(counts, bookingEvents[position + 1], bookingTz)
    /\ UNCHANGED <<bookingEvents, bookingTz, cpc>>
    /\ UNCHANGED <<freeVars, availVars, postVars, mainVars, genVars>>

\* return { weekday, weekend }
ReturnCounts ==
    /\ cpc = "counting"
    /\ position = Len(bookingEvents)
    /\ cpc' = "returned"
    /\ UNCHANGED <<bookingEvents, bookingTz, counts, position>>
    /\ UNCHANGED <<freeVars, availVars, postVars, mainVars, genVars>>

NextCount == CountBooking \/ ReturnCounts

SpecCount == InitCount /\ [][NextCount]_vars

\* ------------------------------------------------------------------------
\* Properties of countByHour
\* ------------------------------------------------------------------------
\* the booking, with start < end, occupies hour h of the day it starts on in
\* the zone: the hour is not before the hour of the start, and it begins
\* before the booking ends
Occupies(booking, zone, h) ==
    /\ booking.start < booking.end
    /\ HourOf(booking.start, zone) <= h
    /\ LocalDay(booking.start, zone) * DayMs + h * HourMs < LocalMs(booking.end, zone)

BookingsOccupying(h) ==
    {i \in 1 .. Len(bookingEvents) : Occupies(bookingEvents[i], bookingTz, h)}

\* C27: countByHour adds one to the count of every hour of the day that a
\* booking with start < end occupies, from the hour of the start to the end,
\* the end hour itself only when the end is not on the hour, also for a
\* booking that runs past midnight (22:00 to 01:00 counts for 22 and 23)
C27_EveryOccupiedHourCounted ==
    cpc = "returned" =>
        \A h \in 0 .. DayHours - 1 :
            counts.weekday[h] + counts.weekend[h] = Cardinality(BookingsOccupying(h))

\* ------------------------------------------------------------------------
\* Further properties of peakFreeSlots and of calcFreeSlots
\* ------------------------------------------------------------------------
\* slot inner lies within slot outer
SlotWithin(inner, outer) ==
    SlotStart(outer) <= SlotStart(inner) /\ SlotEnd(inner) <= SlotEnd(outer)

\* the free slots that hold the slot
Holders(slots, slot) == {k \in 1 .. Len(slots) : SlotWithin(slot, slots[k])}

\* what C29 says of a result
PeakSlotsOrdered(res) ==
    /\ \A k \in 1 .. Len(res.peakFreeSlots) - 1 :
          /\ SlotStart(res.peakFreeSlots[k]) < SlotStart(res.peakFreeSlots[k + 1])
          /\ SlotEnd(res.peakFreeSlots[k]) < SlotStart(res.peakFreeSlots[k + 1])
    /\ \A k \in 1 .. Len(res.peakFreeSlots) :
          /\ Cardinality(Holders(res.freeSlots, res.peakFreeSlots[k])) = 1
          /\ PeakStart <= SlotStart(res.peakFreeSlots[k])
          /\ SlotEnd(res.peakFreeSlots[k]) <= PeakEnd
    /\ Len(res.peakFreeSlots) <= Len(res.freeSlots)

\* C29: on the general path peakFreeSlots is sorted by start, its entries
\* neither overlap nor touch, each entry lies in exactly one entry of
\* freeSlots and in the peak window [peakStart, peakEnd], and there are no
\* more entries than free slots
C29_PeakSlotsDisjointInWindow == GeneralPath => PeakSlotsOrdered(result)

BusyStarts == {busyIntervals[j][1] : j \in 1 .. Len(busyIntervals)}
BusyEnds == {busyIntervals[j][2] : j \in 1 .. Len(busyIntervals)}

\* C30: each free slot calcFreeSlots returns is maximal. For well-formed busy
\* intervals every free slot starts at dayStart or at the end of a busy
\* interval, ends at dayEnd or at the start of a busy interval, and holds no
\* instant of a busy interval; for k busy intervals there are at most k + 1
\* free slots
C30_FreeSlotsMaximal ==
    (Returned /\ WellFormed(busyIntervals)) =>
        /\ \A k \in 1 .. Len(freeSlots) :
              /\ SlotStart(freeSlots[k]) \in {dayStart} \cup BusyEnds
              /\ SlotEnd(freeSlots[k]) \in {dayEnd} \cup BusyStarts
              /\ \A t \in SlotStart(freeSlots[k]) .. SlotEnd(freeSlots[k]) - 1 :
                    ~InBusy(busyIntervals, t)
        /\ Len(freeSlots) <= Len(busyIntervals) + 1

\* a call on two overlapping busy intervals that are nowhere nested returned
\* one free slot, from dayStart to the first start or from the later end to
\* dayEnd
C30_Witness ==
    /\ Returned
    /\ Len(busyIntervals) = 2
    /\ \E i, j \in 1 .. 2 :
          /\ busyIntervals[i][1] < busyIntervals[j][1]
          /\ busyIntervals[j][1] < busyIntervals[i][2]
          /\ busyIntervals[i][2] < busyIntervals[j][2]
          /\ \/ freeSlots = <<TimeSlot(dayStart, busyIntervals[i][1])>>
             \/ freeSlots = <<TimeSlot(busyIntervals[j][2], dayEnd)>>

====
